---- MODULE Spec2Model ----
(***************************************************************************)
(* Model of the Raydium CP-AMM demonstration client (src/src/main.rs).     *)
(*                                                                         *)
(* The client is one blocking thread.  Its state is the position of that   *)
(* thread in main and in the RaydiumIntegration method it is executing,    *)
(* the local bindings that are live there, and the part of the remote      *)
(* ledger the client reads and writes (the pool state accounts).  A run of *)
(* the program ends in "done" or "failed"; the program may then be run     *)
(* again against the same ledger.                                          *)
(*                                                                         *)
(* Amounts are u64 in the program and pass through f64 when the slippage   *)
(* margin is applied.  The model keeps the shape of the arithmetic and     *)
(* scales the widths down: U64_MAX (u64::MAX) and F64_MANTISSA_BITS (the   *)
(* 53 significant bits of an f64) are bounds of the model, chosen so that, *)
(* as in the program, an f64 holds fewer bits than a u64 and resolves far  *)
(* less than the 1% margin.                                                *)
(* Optional values (Option<T>, a binding not yet made) are sequences of    *)
(* length 0 or 1.                                                          *)
(***************************************************************************)
EXTENDS Integers, Sequences, FiniteSets, TLC

VARIABLES
    token_a,          \* main: token_a, the key parsed from TOKEN_A
    token_b,          \* main: token_b, the key parsed from TOKEN_B
    run,              \* number of the current run of the program (1, 2, ..)
    ledger,           \* remote ledger: the set of PoolState accounts
    seenKeys,         \* pool keys returned by initialize_pool in any run so far
    step,             \* position of the thread in main
    sub,              \* position inside the method executing for that step
    blocked,          \* the thread is blocked in an RPC round trip
    outstanding,      \* number of RPC requests sent and not yet answered
    errSeen,          \* a fallible step of this run has returned Err
    started,          \* operations main has started in this run, in order
    signed,           \* operations that constructed a signed transaction
    submitted,        \* transactions handed to send_and_confirm, in order
    confirmed,        \* operations whose transaction was confirmed
    poolCheck,        \* outcome of the existence check of initialize_pool
    poolExisted,      \* the pool state account was on the ledger at that check
    calledWithZero,   \* initialize_pool was called with a zero amount
    opCalls,          \* RPC requests issued by the operation in progress
    snapReads,        \* liquidity snapshots completed by the operation in progress
    amm_config_key,   \* main: amm_config_key
    token_0_mint,     \* main: token_0_mint
    token_1_mint,     \* main: token_1_mint
    init_result,      \* main: signature returned by initialize_pool
    init_keys,        \* main: init_keys
    pool_liquidity,   \* main: pool_liquidity
    init_args,        \* initialize_pool: token_0_amount, token_1_amount
    lp_token_amount,  \* add/remove/add_and_remove: lp_token_amount
    tx_instructions,  \* instruction list being assembled
    deposit,          \* calculate_token_amounts: deposit
    gpl_pool,         \* get_pool_liquidity: pool_data
    calc_liquidity,   \* calculate_token_amounts: pool_liquidity
    amounts,          \* result of calculate_token_amounts
    transaction       \* the signed transaction of the operation in progress

ledgerVars == <<run, ledger, seenKeys>>
control    == <<step, sub, blocked, outstanding>>
history    == <<errSeen, started, signed, submitted, confirmed, poolCheck, poolExisted,
                calledWithZero, opCalls, snapReads>>
mainLocals == <<amm_config_key, token_0_mint, token_1_mint, init_result,
                init_keys, pool_liquidity>>
opLocals   == <<init_args, lp_token_amount, tx_instructions, deposit, gpl_pool,
                calc_liquidity, amounts, transaction>>
inputs     == <<token_a, token_b>>
vars       == <<inputs, ledgerVars, control, history, mainLocals, opLocals>>

(***************************************************************************)
(* Bounds of the model.                                                    *)
(***************************************************************************)
\* Largest value of the scaled-down u64.
U64_MAX == 255
\* Significant bits of the scaled-down f64 (f64::MANTISSA_DIGITS).
F64_MANTISSA_BITS == 7
\* Largest lp_token_amount and lp_supply calculate_token_amounts is applied to.
MaxLp == 3
\* Largest mint key order_tokens is applied to.
MaxMint == 3
\* Largest amount an input of main or an account read in a run of main holds.
MaxAmount == 1
\* Number of times the program is run against the same ledger.
MaxRuns == 2

U64 == 0..U64_MAX
Amounts == 0..MaxAmount
LpAmounts == 0..MaxLp
Mints == 0..MaxMint
\* u128::MAX for the scaled width: (U64_MAX + 1)^2 - 1.
U128_MAX == (U64_MAX + 1) * (U64_MAX + 1) - 1

(***************************************************************************)
(* Program constants.                                                      *)
(***************************************************************************)
\* Public keys are compared as byte strings; the two mints are two distinct
\* keys, TOKEN_B ("2vEy..") sorting before TOKEN_A ("69ii..").
TOKEN_A == 2
TOKEN_B == 1
AMM_CONFIG_INDEX == 0
\* SLIPPAGE = 0.01, as a percentage.
SLIPPAGE_PERCENT == 1

PROGRAM_ID == "raydium_cp_swap"
PAYER      == "payer"
SPL_TOKEN  == "spl_token"

(***************************************************************************)
(* Address derivation.  Pubkey::find_program_address is a deterministic    *)
(* hash of the seeds and the program id; it is modelled as the injective   *)
(* function that pairs them.                                               *)
(***************************************************************************)
FindProgramAddress(seeds, program_id) == <<program_id, seeds>>

GetAssociatedTokenAddress(wallet, mint, token_program) ==
    <<"ata", wallet, mint, token_program>>

AmmConfigAddress(index) ==
    FindProgramAddress(<<"amm_config", index>>, PROGRAM_ID)

PoolStateAddress(amm_config, mint_0, mint_1) ==
    FindProgramAddress(<<"pool", amm_config, mint_0, mint_1>>, PROGRAM_ID)

PoolAuthorityAddress ==
    FindProgramAddress(<<"vault_and_lp_mint_auth_seed">>, PROGRAM_ID)

PoolVaultAddress(pool_state, mint) ==
    FindProgramAddress(<<"pool_vault", pool_state, mint>>, PROGRAM_ID)

LpMintAddress(pool_state) ==
    FindProgramAddress(<<"pool_lp_mint", pool_state>>, PROGRAM_ID)

\* Owner (token program) of a mint account, as get_account reports it.
MintOwner(mint) == SPL_TOKEN

\* order_tokens without the comparison: the keys as they were passed.
OrderTokensAsGiven(key_a, key_b) == <<key_a, key_b>>

\* order_tokens: the smaller key first.
order_tokens(key_a, key_b) ==
    IF key_a < key_b THEN <<key_a, key_b>> ELSE <<key_b, key_a>>

(***************************************************************************)
(* Arithmetic.                                                             *)
(***************************************************************************)
\* u128 checked_mul / checked_div / checked_rem: None on overflow or on a
\* zero divisor.
CheckedMul(a, b) == IF a * b > U128_MAX THEN <<>> ELSE <<a * b>>
CheckedDiv(a, b) == IF b = 0 THEN <<>> ELSE <<a \div b>>
CheckedRem(a, b) == IF b = 0 THEN <<>> ELSE <<a % b>>

\* One side of CurveCalculator::lp_tokens_to_trading_tokens with
\* RoundDirection::Ceiling: lp * reserve / supply, rounded up when the
\* division leaves a remainder and the quotient is not zero.
TradingTokenCeiling(lp, supply, reserve) ==
    LET product == CheckedMul(lp, reserve)
    IN  IF product = <<>> THEN <<>>
        ELSE LET quotient  == CheckedDiv(product[1], supply)
                 remainder == CheckedRem(product[1], supply)
             IN  IF quotient = <<>> \/ remainder = <<>> THEN <<>>
                 ELSE IF remainder[1] > 0 /\ quotient[1] > 0
                      THEN <<quotient[1] + 1>>
                      ELSE quotient

\* CurveCalculator::lp_tokens_to_trading_tokens(.., RoundDirection::Ceiling).
lp_tokens_to_trading_tokens(lp, supply, reserve_0, reserve_1) ==
    LET t0 == TradingTokenCeiling(lp, supply, reserve_0)
        t1 == TradingTokenCeiling(lp, supply, reserve_1)
    IN  IF t0 = <<>> \/ t1 = <<>> THEN <<>>
        ELSE <<[token_0_amount |-> t0[1], token_1_amount |-> t1[1]]>>

RECURSIVE Pow2(_)
Pow2(n) == IF n = 0 THEN 1 ELSE 2 * Pow2(n - 1)

\* The binary exponent of num / den >= 1: the largest e with 2^e <= num / den.
RECURSIVE FloorLog2(_, _)
FloorLog2(num, den) ==
    IF num < 2 * den THEN 0 ELSE 1 + FloorLog2(num, 2 * den)

\* num / den rounded to the nearest integer, a tie to the even one
\* (the IEEE 754 default rounding).
RoundHalfEven(num, den) ==
    LET q == num \div den
        r == num % den
    IN  IF 2 * r < den THEN q
        ELSE IF 2 * r > den THEN q + 1
        ELSE IF q % 2 = 0 THEN q ELSE q + 1

\* The f64 nearest to num / den, as a fraction <<numerator, denominator>>:
\* num / den = m * 2^e with 2^(BITS-1) <= m < 2^BITS, m rounded to an integer.
\* A value below 1 is brought into range by 2^BITS first (scaling by a power
\* of two does not change the rounding).
F64(num, den) ==
    IF num = 0 THEN <<0, 1>>
    ELSE LET k  == IF num < den THEN Pow2(F64_MANTISSA_BITS) ELSE 1
             e  == FloorLog2(num * k, den)
             q  == Pow2(F64_MANTISSA_BITS - 1)
             m  == RoundHalfEven(num * k * q, den * Pow2(e))
         IN  <<m * Pow2(e), q * k>>

\* `x as f64` for a u64: exact up to F64_MANTISSA_BITS bits, rounded to the
\* nearest representable integer above.
U64AsF64(x) ==
    LET f == F64(x, 1)
    IN  f[1] \div f[2]

F64Ceil(f)  == (f[1] + f[2] - 1) \div f[2]
F64Floor(f) == f[1] \div f[2]

\* (amount as f64 * (1.0 + SLIPPAGE)).ceil(), before the cast back to u64.
\* The factor 1.0 + SLIPPAGE is taken as 101/100 (its own rounding error is
\* below that of the product by orders of magnitude); the conversion of
\* amount and the product are each rounded to an f64.
WithSlippageCeil(amount) ==
    F64Ceil(F64(U64AsF64(amount) * (100 + SLIPPAGE_PERCENT), 100))

\* WithSlippageFloor with no margin taken off: the amount itself.
WithoutSlippage(amount) == amount

\* (amount as f64 * (1.0 - SLIPPAGE)).floor(), before the cast back to u64.
WithSlippageFloor(amount) ==
    F64Floor(F64(U64AsF64(amount) * (100 - SLIPPAGE_PERCENT), 100))

\* `x as u64` for a non-negative f64: Rust's float-to-integer cast saturates.
F64AsU64(x) == IF x > U64_MAX THEN U64_MAX ELSE x

\* calculate_token_amounts, after the snapshot has been read.
calculate_token_amounts(liquidity, lp, is_deposit) ==
    LET results == lp_tokens_to_trading_tokens(lp, liquidity.lp_supply,
                       liquidity.token_0_amount, liquidity.token_1_amount)
    IN  IF results = <<>> THEN [status |-> "err", amount_0 |-> 0, amount_1 |-> 0]
        ELSE IF results[1].token_0_amount > U64_MAX \/ results[1].token_1_amount > U64_MAX
        THEN [status |-> "err", amount_0 |-> 0, amount_1 |-> 0]
        ELSE IF is_deposit
        THEN [status |-> "ok",
              amount_0 |-> F64AsU64(WithSlippageCeil(results[1].token_0_amount)),
              amount_1 |-> F64AsU64(WithSlippageCeil(results[1].token_1_amount))]
        ELSE [status |-> "ok",
              amount_0 |-> F64AsU64(WithSlippageFloor(results[1].token_0_amount)),
              amount_1 |-> F64AsU64(WithSlippageFloor(results[1].token_1_amount))]

(***************************************************************************)
(* Control flow of main.                                                   *)
(***************************************************************************)
LiquiditySteps == {"liq_1", "liq_2", "liq_3", "liq_4"}

\* StepAfter with the calls of add_liquidity and remove_liquidity exchanged.
StepAfterExchanged(s) ==
    CASE s = "read_keypair"             -> "new"
      [] s = "new"                      -> "list_amm_configs"
      [] s = "list_amm_configs"         -> "get_amm_config_by_index"
      [] s = "get_amm_config_by_index"  -> "order_tokens"
      [] s = "order_tokens"             -> "initialize_pool"
      [] s = "initialize_pool"          -> "liq_1"
      [] s = "liq_1"                    -> "remove_liquidity"
      [] s = "remove_liquidity"         -> "liq_2"
      [] s = "liq_2"                    -> "add_liquidity"
      [] s = "add_liquidity"            -> "liq_3"
      [] s = "liq_3"                    -> "add_and_remove_liquidity"
      [] s = "add_and_remove_liquidity" -> "liq_4"
      [] OTHER                          -> "done"

\* The statement of main that follows statement s.
StepAfter(s) ==
    CASE s = "read_keypair"             -> "new"
      [] s = "new"                      -> "list_amm_configs"
      [] s = "list_amm_configs"         -> "get_amm_config_by_index"
      [] s = "get_amm_config_by_index"  -> "order_tokens"
      [] s = "order_tokens"             -> "initialize_pool"
      [] s = "initialize_pool"          -> "liq_1"
      [] s = "liq_1"                    -> "add_liquidity"
      [] s = "add_liquidity"            -> "liq_2"
      [] s = "liq_2"                    -> "remove_liquidity"
      [] s = "remove_liquidity"         -> "liq_3"
      [] s = "liq_3"                    -> "add_and_remove_liquidity"
      [] s = "add_and_remove_liquidity" -> "liq_4"
      [] OTHER                          -> "done"

\* Where statement s begins: a local computation, a single RPC, or a call
\* of a method of RaydiumIntegration.
EntrySub(s) ==
    CASE s \in {"read_keypair", "new", "order_tokens"}              -> "local"
      [] s \in {"list_amm_configs", "get_amm_config_by_index"}      -> "rpc"
      [] s = "done"                                                 -> "none"
      [] OTHER                                                      -> "call"

\* The method main calls at statement s.
OperationAt(s) == IF s \in LiquiditySteps THEN "get_pool_liquidity" ELSE s

\* Failed with the `?` left out: the Err is dropped and the caller goes on.
FailedIgnored(res) == FALSE

\* The `?` operator: an Err result makes the enclosing function return it.
Failed(res) == res = "err"

\* AfterSendError with a resend loop around the submission.
AfterSendErrorResend == "send"

\* What an operation does when send_and_confirm_transaction_with_spinner
\* returns Err: the `?` returns the error ("abort"); there is no resend.
AfterSendError == "abort"

\* AfterDepositInstructions with the deposit list submitted on its own.
AfterDepositInstructionsAlone(s) == "blockhash"

\* Where add_liquidity and add_and_remove_liquidity continue once
\* create_deposit_instructions has returned its list.
AfterDepositInstructions(s) ==
    IF s = "add_and_remove_liquidity" THEN "begin_withdrawal" ELSE "blockhash"

\* Positions at which the thread issues an RPC other than a submission.
RpcSubs == {"rpc", "get_mint_0", "get_mint_1", "fetch_pool_state",
            "blockhash", "fetch_pool", "fetch_vaults"}

Results == {"ok", "err"}

(***************************************************************************)
(* Initial state and shared pieces of the actions.                         *)
(***************************************************************************)
ClearMainLocals ==
    /\ amm_config_key' = <<>>
    /\ token_0_mint' = <<>>
    /\ token_1_mint' = <<>>
    /\ init_result' = "unset"
    /\ init_keys' = <<>>
    /\ pool_liquidity' = <<>>

ClearOpLocals ==
    /\ init_args' = <<>>
    /\ lp_token_amount' = <<>>
    /\ tx_instructions' = <<>>
    /\ deposit' = <<>>
    /\ gpl_pool' = <<>>
    /\ calc_liquidity' = <<>>
    /\ amounts' = <<>>
    /\ transaction' = <<>>

\* An error propagates out of main: the process ends, its bindings are gone.
Abort ==
    /\ step' = "failed"
    /\ sub' = "none"
    /\ blocked' = FALSE
    /\ ClearMainLocals
    /\ ClearOpLocals

\* main goes on to its next statement.
Return ==
    /\ step' = StepAfter(step)
    /\ sub' = EntrySub(StepAfter(step))
    /\ blocked' = FALSE

\* The RPC the thread is blocked in is answered.
Answered ==
    /\ blocked
    /\ outstanding > 0
    /\ outstanding' = outstanding - 1

Init ==
    /\ token_a = TOKEN_A
    /\ token_b = TOKEN_B
    /\ run = 1
    /\ ledger = {}
    /\ seenKeys = {}
    /\ step = "read_keypair"
    /\ sub = "local"
    /\ blocked = FALSE
    /\ outstanding = 0
    /\ errSeen = FALSE
    /\ started = <<>>
    /\ signed = <<>>
    /\ submitted = <<>>
    /\ confirmed = <<>>
    /\ poolCheck = "none"
    /\ poolExisted = FALSE
    /\ calledWithZero = FALSE
    /\ opCalls = 0
    /\ snapReads = 0
    /\ amm_config_key = <<>>
    /\ token_0_mint = <<>>
    /\ token_1_mint = <<>>
    /\ init_result = "unset"
    /\ init_keys = <<>>
    /\ pool_liquidity = <<>>
    /\ init_args = <<>>
    /\ lp_token_amount = <<>>
    /\ tx_instructions = <<>>
    /\ deposit = <<>>
    /\ gpl_pool = <<>>
    /\ calc_liquidity = <<>>
    /\ amounts = <<>>
    /\ transaction = <<>>

(***************************************************************************)
(* RPC requests.  RpcClient is the blocking client: a request is issued    *)
(* by the thread and the thread waits for its answer.                      *)
(***************************************************************************)
\* The thread sends the request of the RPC it has reached.
Request ==
    /\ ~blocked
    /\ sub \in RpcSubs
    /\ blocked' = TRUE
    /\ outstanding' = outstanding + 1
    /\ opCalls' = opCalls + 1
    /\ UNCHANGED <<ledgerVars, step, sub, errSeen, started, signed, submitted,
                   confirmed, poolCheck, poolExisted, calledWithZero, snapReads,
                   mainLocals, opLocals>>
    /\ UNCHANGED inputs

\* What the history keeps of a submitted transaction: the operation, the
\* kinds of its instructions in order, where the snapshots behind its AMM
\* amounts were read, and how many snapshots the operation had read.
Summary(tx) ==
    [op    |-> tx.op,
     kinds |-> [i \in 1..Len(tx.instructions) |-> tx.instructions[i].kind],
     snaps |-> {tx.instructions[i].snap : i \in 1..Len(tx.instructions)} \ {"none"},
     reads |-> snapReads]

\* send_and_confirm_transaction_with_spinner(&transaction) is entered.
SubmitTransaction ==
    /\ ~blocked
    /\ sub = "send"
    /\ transaction # <<>>
    /\ blocked' = TRUE
    /\ outstanding' = outstanding + 1
    /\ opCalls' = opCalls + 1
    /\ submitted' = Append(submitted, Summary(transaction[1]))
    /\ UNCHANGED <<ledgerVars, step, sub, errSeen, started, signed,
                   confirmed, poolCheck, poolExisted, calledWithZero, snapReads,
                   mainLocals, opLocals>>
    /\ UNCHANGED inputs

(***************************************************************************)
(* main, up to the call of initialize_pool.                                *)
(***************************************************************************)
\* read_keypair_file(WALLET_FILE)?
ReadKeypair ==
    /\ step = "read_keypair"
    /\ \E res \in Results :
         /\ errSeen' = (errSeen \/ res = "err")
         /\ IF Failed(res)
            THEN Abort
            ELSE Return /\ UNCHANGED <<mainLocals, opLocals>>
    /\ UNCHANGED <<ledgerVars, outstanding, started, signed, submitted,
                   confirmed, poolCheck, poolExisted, calledWithZero, opCalls, snapReads>>
    /\ UNCHANGED inputs

\* RaydiumIntegration::new(payer, Cluster::Devnet)?
New ==
    /\ step = "new"
    /\ \E res \in Results :
         /\ errSeen' = (errSeen \/ res = "err")
         /\ IF Failed(res)
            THEN Abort
            ELSE Return /\ UNCHANGED <<mainLocals, opLocals>>
    /\ UNCHANGED <<ledgerVars, outstanding, started, signed, submitted,
                   confirmed, poolCheck, poolExisted, calledWithZero, opCalls, snapReads>>
    /\ UNCHANGED inputs

\* raydium.list_amm_configs()?  (the answer of program.accounts)
ListAmmConfigs ==
    /\ step = "list_amm_configs"
    /\ Answered
    /\ \E res \in Results :
         /\ errSeen' = (errSeen \/ res = "err")
         /\ IF Failed(res)
            THEN Abort
            ELSE Return /\ UNCHANGED <<mainLocals, opLocals>>
    /\ UNCHANGED <<ledgerVars, started, signed, submitted,
                   confirmed, poolCheck, poolExisted, calledWithZero, opCalls, snapReads>>
    /\ UNCHANGED inputs

\* raydium.get_amm_config_by_index(AMM_CONFIG_INDEX)?
GetAmmConfigByIndex ==
    /\ step = "get_amm_config_by_index"
    /\ Answered
    /\ \E res \in Results :
         /\ errSeen' = (errSeen \/ res = "err")
         /\ IF Failed(res)
            THEN Abort
            ELSE /\ Return
                 /\ amm_config_key' = <<AmmConfigAddress(AMM_CONFIG_INDEX)>>
                 /\ UNCHANGED <<token_0_mint, token_1_mint, init_result,
                                init_keys, pool_liquidity, opLocals>>
    /\ UNCHANGED <<ledgerVars, started, signed, submitted,
                   confirmed, poolCheck, poolExisted, calledWithZero, opCalls, snapReads>>
    /\ UNCHANGED inputs

\* Pubkey::from_str(TOKEN_A)?, Pubkey::from_str(TOKEN_B)?, order_tokens.
\* Both strings are valid keys, so neither parse fails.
OrderTokens ==
    /\ step = "order_tokens"
    /\ Return
    /\ token_0_mint' = <<order_tokens(token_a, token_b)[1]>>
    /\ token_1_mint' = <<order_tokens(token_a, token_b)[2]>>
    /\ UNCHANGED <<ledgerVars, outstanding, history, amm_config_key,
                   init_result, init_keys, pool_liquidity, opLocals>>
    /\ UNCHANGED inputs

(***************************************************************************)
(* initialize_pool.                                                        *)
(***************************************************************************)
\* The PoolState accounts of the ledger stored at an address.
PoolAt(address) == {p \in ledger : p.address = address}

\* ZeroAmount with `&&` written for `||`.
ZeroAmountBoth(amount_0, amount_1) == amount_0 = 0 /\ amount_1 = 0

\* if token_0_amount == 0 || token_1_amount == 0
ZeroAmount(amount_0, amount_1) == amount_0 = 0 \/ amount_1 = 0

\* ExistingPoolKeys with the two vault fields of the pool state exchanged.
ExistingPoolKeysExchanged(pool_data, pool_state, mint_0, mint_1) ==
    [token_0_vault   |-> pool_data.token_1_vault,
     token_1_vault   |-> pool_data.token_0_vault,
     pool_state      |-> pool_state,
     pool_authority  |-> PoolAuthorityAddress,
     lp_mint         |-> pool_data.lp_mint,
     creator_token_0 |-> GetAssociatedTokenAddress(PAYER, mint_0, MintOwner(mint_0)),
     creator_token_1 |-> GetAssociatedTokenAddress(PAYER, mint_1, MintOwner(mint_1)),
     creator_lp_ata  |-> GetAssociatedTokenAddress(PAYER, pool_data.lp_mint, SPL_TOKEN)]

\* The keys initialize_pool returns for a pool that already exists: vaults
\* and LP mint are read from the stored pool state.
ExistingPoolKeys(pool_data, pool_state, mint_0, mint_1) ==
    [token_0_vault   |-> pool_data.token_0_vault,
     token_1_vault   |-> pool_data.token_1_vault,
     pool_state      |-> pool_state,
     pool_authority  |-> PoolAuthorityAddress,
     lp_mint         |-> pool_data.lp_mint,
     creator_token_0 |-> GetAssociatedTokenAddress(PAYER, mint_0, MintOwner(mint_0)),
     creator_token_1 |-> GetAssociatedTokenAddress(PAYER, mint_1, MintOwner(mint_1)),
     creator_lp_ata  |-> GetAssociatedTokenAddress(PAYER, pool_data.lp_mint, SPL_TOKEN)]

\* The keys initialize_pool derives for a pool it is about to create.
DerivedPoolKeys(pool_state, mint_0, mint_1) ==
    [token_0_vault   |-> PoolVaultAddress(pool_state, mint_0),
     token_1_vault   |-> PoolVaultAddress(pool_state, mint_1),
     pool_state      |-> pool_state,
     pool_authority  |-> PoolAuthorityAddress,
     lp_mint         |-> LpMintAddress(pool_state),
     creator_token_0 |-> GetAssociatedTokenAddress(PAYER, mint_0, MintOwner(mint_0)),
     creator_token_1 |-> GetAssociatedTokenAddress(PAYER, mint_1, MintOwner(mint_1)),
     creator_lp_ata  |-> GetAssociatedTokenAddress(PAYER, LpMintAddress(pool_state), SPL_TOKEN)]

\* The pool's own addresses among the returned keys.
PoolKeys(keys) ==
    [pool_state     |-> keys.pool_state,
     pool_authority |-> keys.pool_authority,
     token_0_vault  |-> keys.token_0_vault,
     token_1_vault  |-> keys.token_1_vault,
     lp_mint        |-> keys.lp_mint]

\* The PoolState account the AMM program stores when it executes Initialize
\* with these accounts.
StoredPool(accounts) ==
    [address       |-> accounts.pool_state,
     token_0_vault |-> accounts.token_0_vault,
     token_1_vault |-> accounts.token_1_vault,
     lp_mint       |-> accounts.lp_mint]

\* main calls initialize_pool; the amounts are checked first.
CallInitializePool ==
    /\ step = "initialize_pool"
    /\ sub = "call"
    /\ \E a0 \in Amounts, a1 \in Amounts :
         LET res == IF ZeroAmount(a0, a1) THEN "err" ELSE "ok"
         IN  /\ calledWithZero' = (a0 = 0 \/ a1 = 0)
             /\ errSeen' = (errSeen \/ res = "err")
             /\ IF Failed(res)
                THEN Abort
                ELSE /\ sub' = "get_mint_0"
                     /\ init_args' = <<[token_0_amount |-> a0, token_1_amount |-> a1]>>
                     /\ UNCHANGED <<step, blocked, mainLocals, lp_token_amount,
                                    tx_instructions, deposit, gpl_pool,
                                    calc_liquidity, amounts, transaction>>
    /\ started' = Append(started, OperationAt(step))
    /\ opCalls' = 0
    /\ snapReads' = 0
    /\ UNCHANGED <<ledgerVars, outstanding, signed, submitted, confirmed,
                   poolCheck, poolExisted>>
    /\ UNCHANGED inputs

\* client_rpc.get_account(&token_0_mint).context(..)?.owner
InitGetMint0 ==
    /\ step = "initialize_pool"
    /\ sub = "get_mint_0"
    /\ Answered
    /\ \E res \in Results :
         /\ errSeen' = (errSeen \/ res = "err")
         /\ IF Failed(res)
            THEN Abort
            ELSE /\ sub' = "get_mint_1"
                 /\ blocked' = FALSE
                 /\ UNCHANGED <<step, mainLocals, opLocals>>
    /\ UNCHANGED <<ledgerVars, started, signed, submitted, confirmed,
                   poolCheck, poolExisted, calledWithZero, opCalls, snapReads>>
    /\ UNCHANGED inputs

\* client_rpc.get_account(&token_1_mint).context(..)?.owner
InitGetMint1 ==
    /\ step = "initialize_pool"
    /\ sub = "get_mint_1"
    /\ Answered
    /\ \E res \in Results :
         /\ errSeen' = (errSeen \/ res = "err")
         /\ IF Failed(res)
            THEN Abort
            ELSE /\ sub' = "fetch_pool_state"
                 /\ blocked' = FALSE
                 /\ UNCHANGED <<step, mainLocals, opLocals>>
    /\ UNCHANGED <<ledgerVars, started, signed, submitted, confirmed,
                   poolCheck, poolExisted, calledWithZero, opCalls, snapReads>>
    /\ UNCHANGED inputs

\* if let Ok(pool_data) = program.account::<PoolState>(pool_state) { return .. }
\* The fetch answers Ok only for an account that is there; it answers Err
\* when the account is missing ("not_found") and when the request or the
\* decoding fails ("failed").  Neither Err is propagated.
InitFetchPoolState ==
    /\ step = "initialize_pool"
    /\ sub = "fetch_pool_state"
    /\ Answered
    /\ LET pool_state == PoolStateAddress(amm_config_key[1], token_0_mint[1],
                                          token_1_mint[1])
           found      == PoolAt(pool_state)
       IN  /\ poolExisted' = (found # {})
           /\ \E outcome \in (IF found = {} THEN {"not_found", "failed"}
                                            ELSE {"found", "failed"}) :
                /\ poolCheck' = outcome
                /\ IF outcome = "found"
                   THEN \E pool_data \in found :
                          LET keys == ExistingPoolKeys(pool_data, pool_state,
                                          token_0_mint[1], token_1_mint[1])
                          IN  /\ Return
                              /\ init_result' = "None"
                              /\ init_keys' = <<keys>>
                              /\ seenKeys' = seenKeys \cup {PoolKeys(keys)}
                              /\ ClearOpLocals
                              /\ UNCHANGED <<amm_config_key, token_0_mint,
                                             token_1_mint, pool_liquidity>>
                   ELSE /\ sub' = "build"
                        /\ blocked' = FALSE
                        /\ UNCHANGED <<step, seenKeys, mainLocals, opLocals>>
    /\ UNCHANGED <<run, ledger, errSeen, started, signed, submitted, confirmed,
                   calledWithZero, opCalls, snapReads>>
    /\ UNCHANGED inputs

\* The remaining addresses are derived and the Initialize instruction is
\* built: program.request().accounts(..).args(..).instructions().context(..)?
InitBuild ==
    /\ step = "initialize_pool"
    /\ sub = "build"
    /\ LET pool_state == PoolStateAddress(amm_config_key[1], token_0_mint[1],
                                          token_1_mint[1])
           keys       == DerivedPoolKeys(pool_state, token_0_mint[1], token_1_mint[1])
       IN  \E res \in Results :
             /\ errSeen' = (errSeen \/ res = "err")
             /\ IF Failed(res)
                THEN Abort
                ELSE /\ sub' = "blockhash"
                     /\ tx_instructions' =
                            <<[kind     |-> "Initialize",
                               snap     |-> "none",
                               accounts |-> keys,
                               args     |-> init_args[1]]>>
                     /\ UNCHANGED <<step, blocked, mainLocals, init_args,
                                    lp_token_amount, deposit, gpl_pool,
                                    calc_liquidity, amounts, transaction>>
    /\ UNCHANGED <<ledgerVars, outstanding, started, signed, submitted, confirmed,
                   poolCheck, poolExisted, calledWithZero, opCalls, snapReads>>
    /\ UNCHANGED inputs

\* get_latest_blockhash().context(..)? and Transaction::new_signed_with_payer
\* in operation op.
FetchBlockhashAndSign(op) ==
    /\ step = op
    /\ sub = "blockhash"
    /\ Answered
    /\ \E res \in Results :
         /\ errSeen' = (errSeen \/ res = "err")
         /\ IF Failed(res)
            THEN Abort /\ UNCHANGED signed
            ELSE /\ sub' = "send"
                 /\ blocked' = FALSE
                 /\ transaction' = <<[op |-> op, instructions |-> tx_instructions]>>
                 /\ signed' = Append(signed, op)
                 /\ UNCHANGED <<step, mainLocals, init_args, lp_token_amount,
                                tx_instructions, deposit, gpl_pool,
                                calc_liquidity, amounts>>
    /\ UNCHANGED <<ledgerVars, started, submitted, confirmed,
                   poolCheck, poolExisted, calledWithZero, opCalls, snapReads>>
    /\ UNCHANGED inputs

InitBlockhash == FetchBlockhashAndSign("initialize_pool")

\* send_and_confirm_transaction_with_spinner(&transaction).context(..)? in
\* initialize_pool, and the return of (Some(signature), keys) to main.  The
\* AMM program creates the pool state account, and refuses when it exists.
InitSendAndConfirm ==
    /\ step = "initialize_pool"
    /\ sub = "send"
    /\ Answered
    /\ LET accounts == transaction[1].instructions[1].accounts
       IN  \E res \in (IF PoolAt(accounts.pool_state) # {} THEN {"err"} ELSE Results) :
             /\ errSeen' = (errSeen \/ res = "err")
             /\ ledger' = IF res = "ok" THEN ledger \cup {StoredPool(accounts)}
                                        ELSE ledger
             /\ confirmed' = IF res = "ok" THEN Append(confirmed, step) ELSE confirmed
             /\ IF Failed(res)
                THEN IF AfterSendError = "send"
                     THEN /\ blocked' = FALSE
                          /\ UNCHANGED <<step, sub, seenKeys, mainLocals, opLocals>>
                     ELSE Abort /\ UNCHANGED seenKeys
                ELSE /\ Return
                     /\ init_result' = "Some"
                     /\ init_keys' = <<accounts>>
                     /\ seenKeys' = seenKeys \cup {PoolKeys(accounts)}
                     /\ ClearOpLocals
                     /\ UNCHANGED <<amm_config_key, token_0_mint, token_1_mint,
                                    pool_liquidity>>
    /\ UNCHANGED <<run, started, signed, submitted, poolCheck, poolExisted,
                   calledWithZero, opCalls, snapReads>>
    /\ UNCHANGED inputs

(***************************************************************************)
(* get_pool_liquidity, called by main and by calculate_token_amounts.      *)
(***************************************************************************)
\* CalcSnapshot with a cache: a snapshot already held is used again.
CalcSnapshotCached(read, held) == IF held # <<>> THEN held[1] ELSE read

\* let pool_liquidity = self.get_pool_liquidity(pool_state)?; in
\* calculate_token_amounts: the snapshot it works on is the one that call
\* has just returned (`held` is the snapshot main holds at that moment).
CalcSnapshot(read, held) == read

\* main calls get_pool_liquidity(init_keys.pool_state).
CallGetPoolLiquidity ==
    /\ step \in LiquiditySteps
    /\ sub = "call"
    /\ sub' = "fetch_pool"
    /\ started' = Append(started, OperationAt(step))
    /\ opCalls' = 0
    /\ snapReads' = 0
    /\ UNCHANGED <<ledgerVars, step, blocked, outstanding, errSeen, signed,
                   submitted, confirmed, poolCheck, poolExisted, calledWithZero,
                   mainLocals, opLocals>>
    /\ UNCHANGED inputs

\* program.account::<PoolState>(pool_state).context(..)?
\* lp_supply is whatever the ledger holds when the request is served.
GplFetchPool ==
    /\ sub = "fetch_pool"
    /\ Answered
    /\ LET found == PoolAt(init_keys[1].pool_state)
       IN  \E res \in (IF found = {} THEN {"err"} ELSE Results) :
             /\ errSeen' = (errSeen \/ res = "err")
             /\ IF Failed(res)
                THEN Abort
                ELSE \E pool_data \in found, lp_supply \in Amounts :
                       /\ sub' = "fetch_vaults"
                       /\ blocked' = FALSE
                       /\ gpl_pool' = <<[token_0_vault |-> pool_data.token_0_vault,
                                         token_1_vault |-> pool_data.token_1_vault,
                                         lp_supply     |-> lp_supply]>>
                       /\ UNCHANGED <<step, mainLocals, init_args, lp_token_amount,
                                      tx_instructions, deposit, calc_liquidity,
                                      amounts, transaction>>
    /\ UNCHANGED <<ledgerVars, started, signed, submitted, confirmed,
                   poolCheck, poolExisted, calledWithZero, opCalls, snapReads>>
    /\ UNCHANGED inputs

\* get_multiple_accounts(&[vaults])?, the [Some, Some] match, Account::unpack
\* of both, vault_amount_without_fee, and the return of the PoolLiquidity:
\* to main, or to calculate_token_amounts.  The amounts are whatever the
\* ledger holds when the request is served.
GplFetchVaults ==
    /\ sub = "fetch_vaults"
    /\ Answered
    /\ \E outcome \in {"ok", "rpc_error", "missing_account", "unpack_error"} :
         LET res == IF outcome = "ok" THEN "ok" ELSE "err"
         IN  /\ errSeen' = (errSeen \/ res = "err")
             /\ IF Failed(res)
                THEN Abort /\ UNCHANGED snapReads
                ELSE \E a0 \in Amounts, a1 \in Amounts :
                       LET liquidity == [token_0_amount |-> a0,
                                         token_1_amount |-> a1,
                                         lp_supply      |-> gpl_pool[1].lp_supply,
                                         readAt         |-> step]
                       IN  /\ snapReads' = snapReads + 1
                           /\ gpl_pool' = <<>>
                           /\ IF step \in LiquiditySteps
                              THEN /\ Return
                                   /\ pool_liquidity' = <<liquidity>>
                                   /\ UNCHANGED <<amm_config_key, token_0_mint,
                                                  token_1_mint, init_result, init_keys,
                                                  calc_liquidity>>
                              ELSE /\ sub' = "calc"
                                   /\ blocked' = FALSE
                                   /\ calc_liquidity' =
                                          <<CalcSnapshot(liquidity, pool_liquidity)>>
                                   /\ UNCHANGED <<step, mainLocals>>
                           /\ UNCHANGED <<init_args, lp_token_amount, tx_instructions,
                                          deposit, amounts, transaction>>
    /\ UNCHANGED <<ledgerVars, started, signed, submitted, confirmed,
                   poolCheck, poolExisted, calledWithZero, opCalls>>
    /\ UNCHANGED inputs

(***************************************************************************)
(* Deposit and withdrawal instruction lists.                               *)
(***************************************************************************)
\* create_associated_token_account_idempotent(payer, payer, mint, spl_token)
CreateAta(mint) ==
    [kind     |-> "CreateAta",
     snap     |-> "none",
     accounts |-> [mint |-> mint],
     args     |-> <<>>]

\* The Deposit or Withdraw instruction with its amounts; snap is where the
\* snapshot behind the amounts was read.
AmmInstruction(kind, keys, lp, computed) ==
    [kind     |-> kind,
     snap     |-> computed.readAt,
     accounts |-> keys,
     args     |-> [lp_token_amount |-> lp,
                   amount_0        |-> computed.amount_0,
                   amount_1        |-> computed.amount_1]]

\* Vec::push: the instruction goes to the end of the list.
Push(list, instruction) == Append(list, instruction)

\* Extend with the new instructions put in front of the list.
ExtendInFront(list, instructions) == instructions \o list

\* Vec::extend: the instructions go to the end of the list, in their order.
Extend(list, instructions) == list \o instructions

\* create_deposit_instructions up to its call of calculate_token_amounts:
\* the list starts with the creation of the LP token account.
CreateDepositInstructionsBegin ==
    /\ step \in {"add_liquidity", "add_and_remove_liquidity"}
    /\ sub = "begin_deposit"
    /\ sub' = "fetch_pool"
    /\ tx_instructions' = Push(tx_instructions, CreateAta(init_keys[1].lp_mint))
    /\ deposit' = <<TRUE>>
    /\ UNCHANGED <<ledgerVars, step, blocked, outstanding, history, mainLocals,
                   init_args, lp_token_amount, gpl_pool, calc_liquidity,
                   amounts, transaction>>
    /\ UNCHANGED inputs

\* create_withdrawal_instructions up to its call of calculate_token_amounts:
\* the creation of both token accounts.
CreateWithdrawalInstructionsBegin ==
    /\ step \in {"remove_liquidity", "add_and_remove_liquidity"}
    /\ sub = "begin_withdrawal"
    /\ sub' = "fetch_pool"
    /\ tx_instructions' = Push(Push(tx_instructions, CreateAta(token_0_mint[1])),
                                CreateAta(token_1_mint[1]))
    /\ deposit' = <<FALSE>>
    /\ UNCHANGED <<ledgerVars, step, blocked, outstanding, history, mainLocals,
                   init_args, lp_token_amount, gpl_pool, calc_liquidity,
                   amounts, transaction>>
    /\ UNCHANGED inputs

\* calculate_token_amounts once get_pool_liquidity has returned: the curve
\* conversion, the range check and the slippage margin.
CalculateTokenAmounts ==
    /\ sub = "calc"
    /\ LET computed == calculate_token_amounts(calc_liquidity[1],
                           lp_token_amount[1], deposit[1])
       IN  /\ errSeen' = (errSeen \/ computed.status = "err")
           /\ IF Failed(computed.status)
              THEN Abort
              ELSE /\ sub' = IF deposit[1] THEN "finish_deposit"
                                           ELSE "finish_withdrawal"
                   /\ amounts' = <<[amount_0 |-> computed.amount_0,
                                    amount_1 |-> computed.amount_1,
                                    readAt   |-> calc_liquidity[1].readAt]>>
                   /\ UNCHANGED <<step, blocked, mainLocals, init_args,
                                  lp_token_amount, tx_instructions, deposit,
                                  gpl_pool, calc_liquidity, transaction>>
    /\ UNCHANGED <<ledgerVars, outstanding, started, signed, submitted, confirmed,
                   poolCheck, poolExisted, calledWithZero, opCalls, snapReads>>
    /\ UNCHANGED inputs

\* The rest of create_deposit_instructions: the Deposit instruction is built
\* (.instructions().context(..)?) and appended, and the list is returned.
CreateDepositInstructionsFinish ==
    /\ sub = "finish_deposit"
    /\ \E res \in Results :
         /\ errSeen' = (errSeen \/ res = "err")
         /\ IF Failed(res)
            THEN Abort
            ELSE /\ sub' = AfterDepositInstructions(step)
                 /\ tx_instructions' = Extend(tx_instructions,
                        <<AmmInstruction("Deposit", init_keys[1],
                                         lp_token_amount[1], amounts[1])>>)
                 /\ deposit' = <<>>
                 /\ calc_liquidity' = <<>>
                 /\ amounts' = <<>>
                 /\ UNCHANGED <<step, blocked, mainLocals, init_args,
                                lp_token_amount, gpl_pool, transaction>>
    /\ UNCHANGED <<ledgerVars, outstanding, started, signed, submitted, confirmed,
                   poolCheck, poolExisted, calledWithZero, opCalls, snapReads>>
    /\ UNCHANGED inputs

\* The rest of create_withdrawal_instructions: the Withdraw instruction is
\* built and appended, and the list is returned to the caller, which goes on
\* to fetch a blockhash.
CreateWithdrawalInstructionsFinish ==
    /\ sub = "finish_withdrawal"
    /\ \E res \in Results :
         /\ errSeen' = (errSeen \/ res = "err")
         /\ IF Failed(res)
            THEN Abort
            ELSE /\ sub' = "blockhash"
                 /\ tx_instructions' = Extend(tx_instructions,
                        <<AmmInstruction("Withdraw", init_keys[1],
                                         lp_token_amount[1], amounts[1])>>)
                 /\ deposit' = <<>>
                 /\ calc_liquidity' = <<>>
                 /\ amounts' = <<>>
                 /\ UNCHANGED <<step, blocked, mainLocals, init_args,
                                lp_token_amount, gpl_pool, transaction>>
    /\ UNCHANGED <<ledgerVars, outstanding, started, signed, submitted, confirmed,
                   poolCheck, poolExisted, calledWithZero, opCalls, snapReads>>
    /\ UNCHANGED inputs

(***************************************************************************)
(* add_liquidity, remove_liquidity, add_and_remove_liquidity.              *)
(***************************************************************************)
\* main calls operation op with lp_token_amount; the operation begins with
\* the instruction list named by first.
CallLiquidityOperation(op, first) ==
    /\ step = op
    /\ sub = "call"
    /\ \E lp \in Amounts : lp_token_amount' = <<lp>>
    /\ sub' = first
    /\ started' = Append(started, OperationAt(step))
    /\ opCalls' = 0
    /\ snapReads' = 0
    /\ UNCHANGED <<ledgerVars, step, blocked, outstanding, errSeen, signed,
                   submitted, confirmed, poolCheck, poolExisted, calledWithZero,
                   mainLocals, init_args, tx_instructions, deposit, gpl_pool,
                   calc_liquidity, amounts, transaction>>
    /\ UNCHANGED inputs

CallAddLiquidity == CallLiquidityOperation("add_liquidity", "begin_deposit")

CallRemoveLiquidity == CallLiquidityOperation("remove_liquidity", "begin_withdrawal")

CallAddAndRemoveLiquidity ==
    CallLiquidityOperation("add_and_remove_liquidity", "begin_deposit")

AddBlockhash == FetchBlockhashAndSign("add_liquidity")

RemoveBlockhash == FetchBlockhashAndSign("remove_liquidity")

AddAndRemoveBlockhash == FetchBlockhashAndSign("add_and_remove_liquidity")

\* send_and_confirm_transaction_with_spinner(&transaction).context(..)? in
\* operation op, and the return of the signature to main.
SendAndConfirm(op) ==
    /\ step = op
    /\ sub = "send"
    /\ Answered
    /\ \E res \in Results :
         /\ errSeen' = (errSeen \/ res = "err")
         /\ confirmed' = IF res = "ok" THEN Append(confirmed, op) ELSE confirmed
         /\ IF Failed(res)
            THEN IF AfterSendError = "send"
                 THEN /\ blocked' = FALSE
                      /\ UNCHANGED <<step, sub, mainLocals, opLocals>>
                 ELSE Abort
            ELSE /\ Return
                 /\ ClearOpLocals
                 /\ UNCHANGED mainLocals
    /\ UNCHANGED <<ledgerVars, started, signed, submitted, poolCheck, poolExisted,
                   calledWithZero, opCalls, snapReads>>
    /\ UNCHANGED inputs

AddSendAndConfirm == SendAndConfirm("add_liquidity")

RemoveSendAndConfirm == SendAndConfirm("remove_liquidity")

AddAndRemoveSendAndConfirm == SendAndConfirm("add_and_remove_liquidity")

(***************************************************************************)
(* The program is run again, against the ledger the earlier runs left.     *)
(***************************************************************************)
Restart ==
    /\ step \in {"done", "failed"}
    /\ run < MaxRuns
    /\ run' = run + 1
    /\ step' = "read_keypair"
    /\ sub' = "local"
    /\ blocked' = FALSE
    /\ errSeen' = FALSE
    /\ started' = <<>>
    /\ signed' = <<>>
    /\ submitted' = <<>>
    /\ confirmed' = <<>>
    /\ poolCheck' = "none"
    /\ poolExisted' = FALSE
    /\ calledWithZero' = FALSE
    /\ opCalls' = 0
    /\ snapReads' = 0
    /\ ClearMainLocals
    /\ ClearOpLocals
    /\ UNCHANGED <<ledger, seenKeys, outstanding>>
    /\ UNCHANGED inputs

Next ==
    \/ Request
    \/ SubmitTransaction
    \/ ReadKeypair
    \/ New
    \/ ListAmmConfigs
    \/ GetAmmConfigByIndex
    \/ OrderTokens
    \/ CallInitializePool
    \/ InitGetMint0
    \/ InitGetMint1
    \/ InitFetchPoolState
    \/ InitBuild
    \/ InitBlockhash
    \/ InitSendAndConfirm
    \/ CallGetPoolLiquidity
    \/ GplFetchPool
    \/ GplFetchVaults
    \/ CallAddLiquidity
    \/ CallRemoveLiquidity
    \/ CallAddAndRemoveLiquidity
    \/ CreateDepositInstructionsBegin
    \/ CreateWithdrawalInstructionsBegin
    \/ CalculateTokenAmounts
    \/ CreateDepositInstructionsFinish
    \/ CreateWithdrawalInstructionsFinish
    \/ AddBlockhash
    \/ AddSendAndConfirm
    \/ RemoveBlockhash
    \/ RemoveSendAndConfirm
    \/ AddAndRemoveBlockhash
    \/ AddAndRemoveSendAndConfirm
    \/ Restart

Spec == Init /\ [][Next]_vars

\* The order in which main starts its operations.
MainOrder ==
    <<"initialize_pool", "get_pool_liquidity", "add_liquidity", "get_pool_liquidity",
      "remove_liquidity", "get_pool_liquidity", "add_and_remove_liquidity",
      "get_pool_liquidity">>

(***************************************************************************)
(* calculate_token_amounts over the whole u64 range.  The initial states   *)
(* are the states of a first run in which add_liquidity or                 *)
(* remove_liquidity has just read its snapshot, for lp_token_amount and    *)
(* lp_supply up to MaxLp and a snapshot in which the reserve of one token  *)
(* takes every u64 value; the steps are the computation of the amounts and *)
(* the building of the instruction from them.                              *)
(***************************************************************************)
InitAmounts ==
    LET config == AmmConfigAddress(AMM_CONFIG_INDEX)
        mint_0 == order_tokens(TOKEN_A, TOKEN_B)[1]
        mint_1 == order_tokens(TOKEN_A, TOKEN_B)[2]
        keys   == DerivedPoolKeys(PoolStateAddress(config, mint_0, mint_1),
                                  mint_0, mint_1)
        initTx == [op |-> "initialize_pool", kinds |-> <<"Initialize">>,
                   snaps |-> {}, reads |-> 0]
        addTx  == [op |-> "add_liquidity", kinds |-> <<"CreateAta", "Deposit">>,
                   snaps |-> {"add_liquidity"}, reads |-> 1]
    IN  /\ token_a = TOKEN_A
        /\ token_b = TOKEN_B
        /\ run = 1
        /\ ledger = {StoredPool(keys)}
        /\ seenKeys = {PoolKeys(keys)}
        /\ step \in {"add_liquidity", "remove_liquidity"}
        /\ sub = "calc"
        /\ blocked = FALSE
        /\ outstanding = 0
        /\ errSeen = FALSE
        /\ started = IF step = "add_liquidity"
                     THEN SubSeq(MainOrder, 1, 3) ELSE SubSeq(MainOrder, 1, 5)
        /\ signed = IF step = "add_liquidity"
                    THEN <<"initialize_pool">>
                    ELSE <<"initialize_pool", "add_liquidity">>
        /\ submitted = IF step = "add_liquidity" THEN <<initTx>> ELSE <<initTx, addTx>>
        /\ confirmed = signed
        /\ poolCheck = "not_found"
        /\ poolExisted = FALSE
        /\ calledWithZero = FALSE
        /\ opCalls = 2
        /\ snapReads = 1
        /\ amm_config_key = <<config>>
        /\ token_0_mint = <<mint_0>>
        /\ token_1_mint = <<mint_1>>
        /\ init_result = "Some"
        /\ init_keys = <<keys>>
        /\ \E held \in Amounts :
             pool_liquidity =
                 <<[token_0_amount |-> held, token_1_amount |-> held,
                    lp_supply |-> held,
                    readAt |-> IF step = "add_liquidity" THEN "liq_1" ELSE "liq_2"]>>
        /\ init_args = <<>>
        /\ \E lp \in LpAmounts : lp_token_amount = <<lp>>
        /\ tx_instructions = IF step = "add_liquidity"
                             THEN <<CreateAta(keys.lp_mint)>>
                             ELSE <<CreateAta(mint_0), CreateAta(mint_1)>>
        /\ deposit = <<step = "add_liquidity">>
        /\ gpl_pool = <<>>
        /\ \E wide \in U64, narrow \in Amounts \cup {U64_MAX},
              supply \in LpAmounts, token \in {0, 1} :
             calc_liquidity =
                 <<[token_0_amount |-> IF token = 0 THEN wide ELSE narrow,
                    token_1_amount |-> IF token = 1 THEN wide ELSE narrow,
                    lp_supply |-> supply, readAt |-> step]>>
        /\ amounts = <<>>
        /\ transaction = <<>>

NextAmounts ==
    \/ CalculateTokenAmounts
    \/ CreateDepositInstructionsFinish
    \/ CreateWithdrawalInstructionsFinish

SpecAmounts == InitAmounts /\ [][NextAmounts]_vars

(***************************************************************************)
(* order_tokens and the derivation of the pool address for every pair of   *)
(* mint keys.  The initial states are those of a first run that has        *)
(* fetched the AMM config and is about to order the two keys, for every    *)
(* pair of keys in either order; the steps are those of main up to the     *)
(* building of the Initialize instruction on the pool address.             *)
(***************************************************************************)
InitOrder ==
    /\ token_a \in Mints
    /\ token_b \in Mints
    /\ run = 1
    /\ ledger = {}
    /\ seenKeys = {}
    /\ step = "order_tokens"
    /\ sub = EntrySub("order_tokens")
    /\ blocked = FALSE
    /\ outstanding = 0
    /\ errSeen = FALSE
    /\ started = <<>>
    /\ signed = <<>>
    /\ submitted = <<>>
    /\ confirmed = <<>>
    /\ poolCheck = "none"
    /\ poolExisted = FALSE
    /\ calledWithZero = FALSE
    /\ opCalls = 2
    /\ snapReads = 0
    /\ amm_config_key = <<AmmConfigAddress(AMM_CONFIG_INDEX)>>
    /\ token_0_mint = <<>>
    /\ token_1_mint = <<>>
    /\ init_result = "unset"
    /\ init_keys = <<>>
    /\ pool_liquidity = <<>>
    /\ init_args = <<>>
    /\ lp_token_amount = <<>>
    /\ tx_instructions = <<>>
    /\ deposit = <<>>
    /\ gpl_pool = <<>>
    /\ calc_liquidity = <<>>
    /\ amounts = <<>>
    /\ transaction = <<>>

NextOrder ==
    \/ OrderTokens
    \/ CallInitializePool
    \/ Request
    \/ InitGetMint0
    \/ InitGetMint1
    \/ InitFetchPoolState
    \/ InitBuild

SpecOrder == InitOrder /\ [][NextOrder]_vars

(***************************************************************************)
(* Properties.                                                             *)
(***************************************************************************)
Range(seq) == {seq[i] : i \in 1..Len(seq)}

Count(seq, x) == Cardinality({i \in 1..Len(seq) : seq[i] = x})

\* The operations whose transactions were submitted, in order.
SubmittedOps == [i \in 1..Len(submitted) |-> submitted[i].op]

\* C1: a call of initialize_pool with token_0_amount = 0 or token_1_amount = 0
\* returns an error before any network call: the run has failed, the
\* operation issued no RPC, no instruction was built, no transaction was
\* signed or submitted.
C1_ZeroAmountsRejected ==
    calledWithZero =>
        /\ step = "failed"
        /\ opCalls = 0
        /\ outstanding = 0
        /\ tx_instructions = <<>>
        /\ transaction = <<>>
        /\ "initialize_pool" \notin Range(signed)
        /\ "initialize_pool" \notin Range(SubmittedOps)

\* A run in which initialize_pool was called with a zero amount and returned.
C1_Witness ==
    /\ calledWithZero
    /\ step = "failed"
    /\ started = <<"initialize_pool">>

\* C2: any failure aborts the entire run.  Once a fallible step has returned
\* an error the run is in the failed state with no request outstanding, and
\* from then on nothing more happens in that run: no operation is started,
\* no RPC is issued, no transaction is signed or submitted, the ledger is
\* not written (the only step left is starting the program anew).
C2_FailureAbortsRun ==
    /\ [](errSeen => (step = "failed" /\ ~blocked /\ outstanding = 0))
    /\ [][errSeen =>
            \/ run' = run + 1
            \/ /\ step' = "failed"
               /\ UNCHANGED <<started, signed, submitted, confirmed, opCalls,
                              outstanding, ledger>>]_vars

\* A run that failed after it had submitted transactions.
C2_Witness ==
    /\ errSeen
    /\ step = "failed"
    /\ "add_liquidity" \in Range(started)
    /\ Len(submitted) >= 2

\* C3: no failure is suppressed in initialize_pool.  When the fetch or the
\* decoding of the pool state account fails at the existence check,
\* initialize_pool returns an error: it builds no Initialize instruction,
\* signs and submits no transaction, and once it has returned the run has
\* failed.
C3_NoLocalSuppression ==
    poolCheck = "failed" =>
        /\ tx_instructions = <<>>
        /\ transaction = <<>>
        /\ "initialize_pool" \notin Range(signed)
        /\ "initialize_pool" \notin Range(SubmittedOps)
        /\ step \in {"initialize_pool", "failed"}

\* C4: each operation constructs at most one signed transaction and submits
\* it at most once; only the last submission of a run can be unconfirmed
\* (a failed submission is followed by none); a run submits at most four
\* transactions, and at most three when the pool already existed.
C4_AtMostOneSubmission ==
    /\ \A op \in Range(signed) \cup Range(SubmittedOps) :
         /\ Count(signed, op) <= 1
         /\ Count(SubmittedOps, op) <= 1
    /\ Len(submitted) <= Len(signed)
    /\ Len(submitted) <= Len(confirmed) + 1
    /\ Len(submitted) <= 4
    /\ (poolExisted \/ poolCheck = "found") => Len(submitted) <= 3

\* A run that submitted four transactions.
C4_Witness ==
    /\ Len(submitted) = 4
    /\ Len(confirmed) = 4
    /\ step = "done"

\* C5: add_and_remove_liquidity submits one transaction that holds both the
\* Deposit and the Withdraw instruction, never one with only one of them,
\* and never more than one; when it fails before the submission nothing of
\* it is submitted.
C5_AtomicAddAndRemove ==
    /\ \A i \in 1..Len(submitted) :
         submitted[i].op = "add_and_remove_liquidity" =>
             /\ "Deposit" \in Range(submitted[i].kinds)
             /\ "Withdraw" \in Range(submitted[i].kinds)
    /\ \A i \in 1..Len(submitted) :
         ("Deposit" \in Range(submitted[i].kinds)
             /\ "Withdraw" \in Range(submitted[i].kinds))
             => submitted[i].op = "add_and_remove_liquidity"
    /\ Count(SubmittedOps, "add_and_remove_liquidity") <= 1
    /\ "add_and_remove_liquidity" \in Range(confirmed)
           => Count(SubmittedOps, "add_and_remove_liquidity") = 1
    /\ (step = "add_and_remove_liquidity" /\ transaction # <<>>) =>
           LET kinds == [i \in 1..Len(transaction[1].instructions) |->
                            transaction[1].instructions[i].kind]
           IN  "Deposit" \in Range(kinds) /\ "Withdraw" \in Range(kinds)

\* The combined transaction was submitted and confirmed.
C5_Witness ==
    /\ "add_and_remove_liquidity" \in Range(confirmed)
    /\ submitted[Len(submitted)].op = "add_and_remove_liquidity"

\* C6: initialize_pool either initializes a new pool or returns the data of
\* an existing one.  When the pool state account existed at the check, no
\* transaction is signed or submitted by initialize_pool and, once it has
\* returned without error, it has returned (None, keys); when it returned
\* (Some(signature), keys), exactly one Initialize transaction had been
\* submitted and confirmed and the pool had not existed.
C6_InitializeOrReturnExisting ==
    /\ poolExisted =>
         /\ "initialize_pool" \notin Range(signed)
         /\ "initialize_pool" \notin Range(SubmittedOps)
         /\ init_keys # <<>> => init_result = "None"
    /\ init_result = "None" =>
         /\ poolExisted
         /\ init_keys # <<>>
         /\ "initialize_pool" \notin Range(SubmittedOps)
    /\ init_result = "Some" =>
         /\ ~poolExisted
         /\ init_keys # <<>>
         /\ Count(SubmittedOps, "initialize_pool") = 1
         /\ Count(confirmed, "initialize_pool") = 1

\* An operation that submits a transaction has finished with it: the
\* transaction was confirmed, or (initialize_pool) found unnecessary.
Settled(op) ==
    \/ op = "get_pool_liquidity"
    \/ op \in Range(confirmed)
    \/ op = "initialize_pool" /\ poolCheck = "found"

\* C7: the run is strictly sequential.  The operations start in the order
\* initialize_pool, add_liquidity, remove_liquidity, add_and_remove_liquidity,
\* each followed by a liquidity query; at most one RPC is outstanding, and
\* it is the one the thread is blocked in; when an operation starts, every
\* operation before it has had its transaction confirmed or found
\* unnecessary.
C7_StrictlySequential ==
    /\ Len(started) <= Len(MainOrder)
    /\ \A i \in 1..Len(started) : started[i] = MainOrder[i]
    /\ outstanding <= 1
    /\ blocked <=> outstanding = 1
    /\ \A i \in 1..(Len(started) - 1) : Settled(started[i])
    /\ \A i \in 1..Len(confirmed) : confirmed[i] \in Range(started)

\* A run that went through all eight operations.
C7_Witness ==
    /\ started = MainOrder
    /\ step = "done"
    /\ Len(confirmed) = 4

\* C8: numeric overflow in calculate_token_amounts is surfaced as an error.
\* Whenever calculate_token_amounts has returned amounts, the curve result
\* of both tokens was within the u64 range, for a deposit the
\* slippage-adjusted maximum of both tokens was within the u64 range too,
\* and the amounts returned are exactly the slippage-adjusted values (not
\* wrapped, truncated or clamped).
C8_OverflowSurfaced ==
    (amounts # <<>> /\ calc_liquidity # <<>>) =>
        LET base == lp_tokens_to_trading_tokens(lp_token_amount[1],
                        calc_liquidity[1].lp_supply,
                        calc_liquidity[1].token_0_amount,
                        calc_liquidity[1].token_1_amount)
        IN  /\ base # <<>>
            /\ base[1].token_0_amount <= U64_MAX
            /\ base[1].token_1_amount <= U64_MAX
            /\ deposit[1] =>
                 /\ WithSlippageCeil(base[1].token_0_amount) <= U64_MAX
                 /\ WithSlippageCeil(base[1].token_1_amount) <= U64_MAX
                 /\ amounts[1].amount_0 = WithSlippageCeil(base[1].token_0_amount)
                 /\ amounts[1].amount_1 = WithSlippageCeil(base[1].token_1_amount)
            /\ ~deposit[1] =>
                 /\ amounts[1].amount_0 = WithSlippageFloor(base[1].token_0_amount)
                 /\ amounts[1].amount_1 = WithSlippageFloor(base[1].token_1_amount)

\* The curve results calculate_token_amounts has applied the margin to.
BaseAmounts ==
    lp_tokens_to_trading_tokens(lp_token_amount[1], calc_liquidity[1].lp_supply,
        calc_liquidity[1].token_0_amount, calc_liquidity[1].token_1_amount)

\* ceil(b * 101 / 100) and floor(b * 99 / 100) in exact integer arithmetic.
ExactMaximum(b) == (b * (100 + SLIPPAGE_PERCENT) + 99) \div 100
ExactMinimum(b) == (b * (100 - SLIPPAGE_PERCENT)) \div 100

\* C11: the 1% slippage margin is applied in the safe direction.  For every
\* base amount b of the curve conversion, for token 0 and for token 1: a
\* deposit returns the maximum ceil(b * 101 / 100) (where that fits a u64),
\* which is >= b; a withdrawal returns the minimum floor(b * 99 / 100),
\* which is <= b.
C11_SlippageSafeDirection ==
    (amounts # <<>> /\ calc_liquidity # <<>>) =>
        LET b0 == BaseAmounts[1].token_0_amount
            b1 == BaseAmounts[1].token_1_amount
        IN  /\ (deposit[1] /\ ExactMaximum(b0) <= U64_MAX) =>
                 /\ amounts[1].amount_0 = ExactMaximum(b0)
                 /\ amounts[1].amount_0 >= b0
            /\ (deposit[1] /\ ExactMaximum(b1) <= U64_MAX) =>
                 /\ amounts[1].amount_1 = ExactMaximum(b1)
                 /\ amounts[1].amount_1 >= b1
            /\ ~deposit[1] =>
                 /\ amounts[1].amount_0 = ExactMinimum(b0)
                 /\ amounts[1].amount_0 <= b0
                 /\ amounts[1].amount_1 = ExactMinimum(b1)
                 /\ amounts[1].amount_1 <= b1

\* C9: address derivation is reproducible.  Every return of initialize_pool,
\* in the run that creates the pool and in every later run that finds it,
\* gives the same pool_state, pool_authority, token_0_vault, token_1_vault
\* and lp_mint.
C9_SameKeysEveryRun ==
    /\ \A k1 \in seenKeys : \A k2 \in seenKeys : k1 = k2
    /\ init_keys # <<>> => PoolKeys(init_keys[1]) \in seenKeys
    /\ \A p \in ledger : \A k \in seenKeys :
         /\ p.address = k.pool_state
         /\ p.token_0_vault = k.token_0_vault
         /\ p.token_1_vault = k.token_1_vault
         /\ p.lp_mint = k.lp_mint

\* A later run found the pool an earlier run had created and returned its keys.
C9_Witness ==
    /\ run = 2
    /\ init_result = "None"
    /\ init_keys # <<>>
    /\ Cardinality(seenKeys) = 1

\* The AMM instructions (Deposit, Withdraw) of an instruction list.
AmmInstructions(instructions) ==
    {i \in 1..Len(instructions) : instructions[i].kind \in {"Deposit", "Withdraw"}}

\* C10: the liquidity snapshot is never cached.  The snapshot
\* calculate_token_amounts works on, the amounts it returns and the amounts
\* of every Deposit and Withdraw instruction come from a snapshot read in
\* the operation in progress; an operation has read one snapshot per AMM
\* instruction when it submits (two for add_and_remove_liquidity); and the
\* snapshot main holds is the one its latest query read.
C10_SnapshotNeverCached ==
    /\ calc_liquidity # <<>> => calc_liquidity[1].readAt = step
    /\ amounts # <<>> => amounts[1].readAt = step
    /\ \A i \in AmmInstructions(tx_instructions) : tx_instructions[i].snap = step
    /\ Cardinality(AmmInstructions(tx_instructions)) + Len(calc_liquidity) <= snapReads
    /\ \A i \in 1..Len(submitted) :
         /\ submitted[i].snaps \subseteq {submitted[i].op}
         /\ submitted[i].reads =
                Cardinality({j \in 1..Len(submitted[i].kinds) :
                                submitted[i].kinds[j] \in {"Deposit", "Withdraw"}})
         /\ submitted[i].op = "add_and_remove_liquidity" => submitted[i].reads = 2
    /\ pool_liquidity # <<>> =>
         /\ pool_liquidity[1].readAt \in LiquiditySteps
         /\ \/ step = StepAfter(pool_liquidity[1].readAt)
            \/ step = StepAfter(StepAfter(pool_liquidity[1].readAt))

\* add_and_remove_liquidity submitted its transaction after two reads.
C10_Witness ==
    /\ Len(submitted) >= 1
    /\ submitted[Len(submitted)].op = "add_and_remove_liquidity"
    /\ submitted[Len(submitted)].reads = 2
    /\ submitted[Len(submitted)].snaps = {"add_and_remove_liquidity"}

\* The instruction kinds of the transaction an operation submits.
ExpectedKinds(op) ==
    CASE op = "initialize_pool"          -> <<"Initialize">>
      [] op = "add_liquidity"            -> <<"CreateAta", "Deposit">>
      [] op = "remove_liquidity"         -> <<"CreateAta", "CreateAta", "Withdraw">>
      [] op = "add_and_remove_liquidity" ->
             <<"CreateAta", "Deposit", "CreateAta", "CreateAta", "Withdraw">>

\* The associated accounts the operation creates, by position in its
\* instruction list ("none" at an instruction that creates no account).
ExpectedCreated(op) ==
    CASE op = "add_liquidity"            -> <<"lp", "none">>
      [] op = "remove_liquidity"         -> <<"token_0", "token_1", "none">>
      [] op = "add_and_remove_liquidity" ->
             <<"lp", "none", "token_0", "token_1", "none">>

\* The mint of the account named by which, as main holds it.
MintOf(which) ==
    CASE which = "lp"      -> init_keys[1].lp_mint
      [] which = "token_0" -> token_0_mint[1]
      [] which = "token_1" -> token_1_mint[1]

\* An instruction before position j creates the associated account ata of
\* the payer for the mint named by which.
CreatedBefore(created, j, which, ata) ==
    /\ \E c \in 1..(j - 1) : created[c] = which
    /\ ata = GetAssociatedTokenAddress(PAYER, MintOf(which), SPL_TOKEN)

C13_OrderInsensitive ==
    token_0_mint # <<>> =>
        LET x       == token_0_mint[1]
            y       == token_1_mint[1]
            swapped == order_tokens(token_b, token_a)
        IN  /\ token_1_mint # <<>>
            /\ \/ x = token_a /\ y = token_b
               \/ x = token_b /\ y = token_a
            /\ x <= y
            /\ <<x, y>> = swapped
            /\ \A i \in 1..Len(tx_instructions) :
                 tx_instructions[i].kind = "Initialize" =>
                     tx_instructions[i].accounts.pool_state =
                         PoolStateAddress(amm_config_key[1], swapped[1], swapped[2])

\* The larger key was passed first, the keys were exchanged, and the
\* Initialize instruction was built on the pool address.
C13_Witness ==
    /\ token_a > token_b
    /\ token_0_mint = <<token_b>>
    /\ token_1_mint = <<token_a>>
    /\ Len(tx_instructions) = 1
    /\ tx_instructions[1].kind = "Initialize"

\* What the pool pays out for lp LP tokens of supply on a reserve:
\* floor(lp * reserve / supply).
Payout(lp, supply, reserve) == (lp * reserve) \div supply

\* C14: the withdrawal minimum never exceeds what the pool pays out on the
\* snapshot it was computed from.  For every snapshot with lp_supply > 0 and
\* every lp_token_amount <= lp_supply, the minimum calculate_token_amounts
\* returns for a withdrawal is, for each token, at most
\* floor(lp_token_amount * reserve / lp_supply), although the curve
\* conversion it starts from is rounded up.
C14_WithdrawalMinimumPayable ==
    (/\ amounts # <<>>
     /\ calc_liquidity # <<>>
     /\ ~deposit[1]
     /\ calc_liquidity[1].lp_supply > 0
     /\ lp_token_amount[1] <= calc_liquidity[1].lp_supply) =>
        /\ amounts[1].amount_0 <=
               Payout(lp_token_amount[1], calc_liquidity[1].lp_supply,
                      calc_liquidity[1].token_0_amount)
        /\ amounts[1].amount_1 <=
               Payout(lp_token_amount[1], calc_liquidity[1].lp_supply,
                      calc_liquidity[1].token_1_amount)

\* A withdrawal whose curve conversion was rounded up above the payout and
\* whose minimum is exactly the payout.
C14_Witness ==
    /\ amounts # <<>>
    /\ calc_liquidity # <<>>
    /\ ~deposit[1]
    /\ calc_liquidity[1].lp_supply > 0
    /\ lp_token_amount[1] < calc_liquidity[1].lp_supply
    /\ BaseAmounts[1].token_0_amount >
           Payout(lp_token_amount[1], calc_liquidity[1].lp_supply,
                  calc_liquidity[1].token_0_amount)
    /\ amounts[1].amount_0 =
           Payout(lp_token_amount[1], calc_liquidity[1].lp_supply,
                  calc_liquidity[1].token_0_amount)
    /\ amounts[1].amount_0 > 0

====
